---- MODULE Spec2Model ----
(***************************************************************************)
(* Model of the async_demo benchmark harness:                              *)
(*   src/src/lib.rs   average_time, statistic                              *)
(*   src/src/main.rs  ordered_get (stream .buffered(k)) and                *)
(*                    unordered_get (stream .buffer_unordered(k))          *)
(* One suite run of average_time is modelled.  The suite's tests are read  *)
(* one at a time by the for loop of average_time; the model draws the      *)
(* fields of tests[test_idx] when the loop reaches that element.           *)
(***************************************************************************)
EXTENDS Integers, Sequences, FiniteSets, TLC

\* ---- bounds of the model ------------------------------------------------
MaxTests == 2
MaxRequests == 3
MaxConcurrent == 2
MaxRepeats == 2
MaxSamples == 3        \* length of a slice handed to statistic on its own
MaxSample == 4         \* largest sample of such a slice, in whole ticks

\* Values of delay_s in the model: no delay, and a delay.
Delays == {0, 1}

\* Elapsed times a trial may measure, in whole ticks.
Times == {1, 2}

\* Status codes a server answers with in the model: one 2xx, one non-2xx.
StatusCodes == {200, 404}

\* The two batch executors handed to average_time as async_func.
Modes == {"ordered", "unordered"}

VARIABLES
    mode,                 \* async_func: "ordered" = ordered_get, "unordered" = unordered_get
    numTests,             \* tests.len()
    pc,                   \* position of average_time / of the process
    test_idx,             \* enumerate() index of the current test (0-based)
    test,                 \* the current element of tests
    idx,                  \* trial index of the inner loop, 1..=repeats
    results,              \* timing samples of the current test
    ret,                  \* the vector average_time returns
    slept,                \* durations of the thread::sleep calls made before the current trial
    resp,                 \* value returned by async_func(..).await
    time,                 \* now.elapsed() of the current trial
    timeline,             \* what the current pass of the inner loop has done so far, in order
    \* ---- state of one batch (one call of ordered_get / unordered_get) ----
    next_url,             \* number of urls already taken from stream::iter(urls)
    streamDone,           \* the fused url stream has returned None
    net,                  \* per request: state of its HTTP exchange
    status,               \* per request: status code of its response
    in_progress,          \* futures held by the FuturesUnordered of the buffer
    readyQ,               \* ready-to-run queue of that FuturesUnordered (wake order)
    queued_outputs,       \* FuturesOrdered: outputs completed ahead of their turn
    next_outgoing_index,  \* FuturesOrdered: index of the next output to yield
    out,                  \* the Vec being built by collect()
    driver                \* "poll": the task is scheduled; "wait": it returned Pending

vars == <<mode, numTests, pc, test_idx, test, idx, results, ret, slept, resp, time, timeline,
          next_url, streamDone, net, status, in_progress, readyQ, queued_outputs,
          next_outgoing_index, out, driver>>

suiteVars == <<mode, numTests, test_idx, test, idx, results, ret, slept>>
batchVars == <<next_url, streamDone, net, status, in_progress, readyQ, queued_outputs,
               next_outgoing_index, out, driver>>

\* ---- helpers --------------------------------------------------------------
Min(S) == CHOOSE x \in S : \A y \in S : x <= y

InSeq(x, s) == \E j \in 1..Len(s) : s[j] = x

RECURSIVE SumSeq(_)
SumSeq(s) == IF s = <<>> THEN 0 ELSE Head(s) + SumSeq(Tail(s))

\* Largest r with r*r <= x (the model's sqrt on whole ticks).
ISqrt(x) == CHOOSE r \in 0..x : r * r <= x /\ (r + 1) * (r + 1) > x

\* A Test record; label and url_get are display / target text shared by all
\* requests of the test and carry no control flow.
Tests == [requests_number : 0..MaxRequests,
          concurrent_requests : 1..MaxConcurrent,
          repeats : 0..MaxRepeats,
          delay_s : Delays]

\* Suites of Spec: any repeats and delay, batches of at most two urls (the
\* larger batches are run by BatchSpec).
SuiteTests == {t \in Tests : t.requests_number <= 2}

\* Suites of BatchSpec: one trial of any batch.
BatchTests == {t \in Tests : t.repeats = 1 /\ t.delay_s = 0}

NoTest == [requests_number |-> 0, concurrent_requests |-> 1, repeats |-> 0, delay_s |-> 0]

\* Variant of is_success without the upper end of the 2xx range.
is_successNoUpper(s) == 200 <= s

\* StatusCode::is_success: 200..=299
is_success(s) == 200 <= s /\ s < 300

\* Variant of ShouldSleep that sleeps before every trial.
ShouldSleepAlways(i, t) == TRUE

\* lib.rs:45  the condition guarding thread::sleep
ShouldSleep(i, t) == i # 1 /\ t # 0

\* Variant of statistic that also has no result for a single sample.
statisticNoneForSingle(data) ==
    IF Len(data) <= 1 THEN "None"
    ELSE LET count == Len(data)
             mean == SumSeq(data) \div count
             sq == [j \in 1..count |-> (mean - data[j]) * (mean - data[j])]
             variance == SumSeq(sq) \div count
         IN <<mean, ISqrt(variance)>>

\* Variant of statistic that answers (0, 0) for an empty slice.
statisticZeroForEmpty(data) ==
    IF Len(data) = 0 THEN <<0, 0>>
    ELSE LET count == Len(data)
             mean == SumSeq(data) \div count
             sq == [j \in 1..count |-> (mean - data[j]) * (mean - data[j])]
             variance == SumSeq(sq) \div count
         IN <<mean, ISqrt(variance)>>

\* Variant of TrialPrologue that starts the timer before sleeping.
TrialPrologueTimerFirst(sleeps) ==
    IF sleeps THEN <<"timer_start", "sleep">> ELSE <<"timer_start">>

\* lib.rs:45-51  what a pass of the inner loop does before it calls
\* async_func: the sleep, if its condition holds, and then Instant::now().
TrialPrologue(sleeps) ==
    IF sleeps THEN <<"sleep", "timer_start">> ELSE <<"timer_start">>

\* lib.rs:79-97  statistic: None for an empty slice, else (mean, population std dev).
\* Samples are whole ticks; the divisions and the square root are integer ones.
statistic(data) ==
    IF Len(data) = 0 THEN "None"
    ELSE LET count == Len(data)
             mean == SumSeq(data) \div count
             sq == [j \in 1..count |-> (mean - data[j]) * (mean - data[j])]
             variance == SumSeq(sq) \div count
         IN <<mean, ISqrt(variance)>>

\* ---- the batch executor ---------------------------------------------------
\* State of the HTTP exchange of one request (main.rs:19-22 / 34-37):
\*   "new"       url still in stream::iter(urls)
\*   "created"   future built by the map closure, not polled yet (nothing sent)
\*   "sent"      client.get(url).send() awaits the response head
\*   "hdr"       response head received, resp.text() awaits the body
\*   "body"      body read: the future resolves to (status, text)
\*   "connfail"  send() resolves to Err -> expect("No connection to the server.")
\*   "bodyfail"  text() resolves to Err -> expect("No response from server.")
NetStates == {"new", "created", "sent", "hdr", "body", "connfail", "bodyfail"}
Failed == {"connfail", "bodyfail"}

\* The (StatusCode, String) a finished exchange evaluates to.  The body text
\* is modelled by the position of the url it was fetched for, so that every
\* exchange of a batch has a distinguishable outcome.
Outcome(st, i) == <<st[i], i>>

\* The part of the batch state the stream combinators work on.
BatchState == [next_url |-> next_url, streamDone |-> streamDone, net |-> net,
               in_progress |-> in_progress, readyQ |-> readyQ,
               queued_outputs |-> queued_outputs,
               next_outgoing_index |-> next_outgoing_index]

\* Variant of QueueLen that does not count the queued outputs.
QueueLenInFlightOnly(b, m) == Cardinality(b.in_progress)

\* FuturesOrdered::len() = in_progress_queue.len() + queued_outputs.len();
\* FuturesUnordered::len() = number of futures held.
QueueLen(b, m) ==
    IF m = "ordered" THEN Cardinality(b.in_progress) + Cardinality(b.queued_outputs)
    ELSE Cardinality(b.in_progress)

\* Variants of HasRoom: one future too many, and refilling only when empty.
HasRoomInclusive(len, max) == len <= max

HasRoomWhenEmpty(len, max) == len = 0

\* Buffered / BufferUnordered::poll_next: `while in_progress_queue.len() < max`
HasRoom(len, max) == len < max

\* The filling loop of poll_next: pull urls from the fused stream and push the
\* futures of the map closure while there is room.  A pushed future is
\* enqueued on the ready-to-run queue; it is not polled (nothing is sent) yet.
RECURSIVE Fill(_, _, _, _)
Fill(b, max, n, m) ==
    IF ~HasRoom(QueueLen(b, m), max) \/ b.streamDone THEN b
    ELSE IF b.next_url = n THEN [b EXCEPT !.streamDone = TRUE]
    ELSE LET i == b.next_url + 1
         IN Fill([b EXCEPT !.next_url = i,
                           !.net[i] = "created",
                           !.in_progress = @ \cup {i},
                           !.readyQ = Append(@, i)], max, n, m)

\* Variant of PollFuture that resolves a failed exchange instead of unwinding.
PollFutureLenient(s) ==
    CASE s = "created" -> "Start"
      [] s \in {"sent", "hdr"} -> "Pending"
      [] OTHER -> "Ready"

\* Variant of PollFuture that sends the request again after a failed exchange.
PollFutureRetry(s) ==
    CASE s \in {"created", "connfail", "bodyfail"} -> "Start"
      [] s \in {"sent", "hdr"} -> "Pending"
      [] OTHER -> "Ready"

\* One poll of the future of the map closure (main.rs:19-22 / 34-37), by
\* the state s of its exchange: a new future sends its request, an awaited
\* operation that is not ready leaves it Pending, a read body resolves it,
\* and an Err from send() or text() unwinds through expect.
PollFuture(s) ==
    CASE s = "created" -> "Start"
      [] s \in {"sent", "hdr"} -> "Pending"
      [] s = "body" -> "Ready"
      [] OTHER -> "Panic"

\* FuturesUnordered::poll_next: poll the futures of the ready-to-run queue in
\* wake order until one is Ready.
RECURSIVE PollUnordered(_)
PollUnordered(b) ==
    IF b.in_progress = {} THEN [res |-> "None", item |-> 0, b |-> b]
    ELSE IF b.readyQ = <<>> THEN [res |-> "Pending", item |-> 0, b |-> b]
    ELSE LET i == Head(b.readyQ)
             rest == [b EXCEPT !.readyQ = Tail(@)]
             p == PollFuture(b.net[i])
         IN CASE p = "Start" -> PollUnordered([rest EXCEPT !.net[i] = "sent"])
              [] p = "Pending" -> PollUnordered(rest)
              [] p = "Ready" ->
                    [res |-> "Ready", item |-> i,
                     b |-> [rest EXCEPT !.in_progress = @ \ {i}]]
              [] OTHER -> [res |-> "Panic", item |-> i, b |-> rest]

\* Variant of IsNextOutgoing that yields outputs as they complete.
IsNextOutgoingAny(index, nxt) == TRUE

\* FuturesOrdered::poll_next: `if output.index == this.next_outgoing_index`
IsNextOutgoing(index, nxt) == index = nxt

\* FuturesOrdered::poll_next: yield the queued output whose turn it is, else
\* poll the inner FuturesUnordered, parking outputs completed ahead of turn.
RECURSIVE PollOrdered(_)
PollOrdered(b) ==
    IF b.queued_outputs # {} /\ IsNextOutgoing(Min(b.queued_outputs), b.next_outgoing_index)
    THEN [res |-> "Ready", item |-> Min(b.queued_outputs),
          b |-> [b EXCEPT !.queued_outputs = @ \ {Min(b.queued_outputs)},
                          !.next_outgoing_index = @ + 1]]
    ELSE LET r == PollUnordered(b)
         IN IF r.res = "Ready"
            THEN IF IsNextOutgoing(r.item, r.b.next_outgoing_index)
                 THEN [r EXCEPT !.b.next_outgoing_index = @ + 1]
                 ELSE PollOrdered([r.b EXCEPT !.queued_outputs = @ \cup {r.item}])
            ELSE r

\* Variant of BatchFinished that ends the stream with futures still pending.
BatchFinishedEarly(res, done) == res \in {"None", "Pending"} /\ done

\* Buffered / BufferUnordered::poll_next ends the stream when the queue is
\* exhausted and the url stream is done.
BatchFinished(res, done) == res = "None" /\ done

\* Variant of BufferPoll that puts the outputs back in submission order in
\* both modes.
BufferPollAlwaysOrdered(b, max, n, m) ==
    LET f == Fill(b, max, n, m)
        r == PollOrdered(f)
    IN IF r.res \in {"Ready", "Panic"} THEN r
       ELSE IF BatchFinished(r.res, r.b.streamDone) THEN [r EXCEPT !.res = "None"]
       ELSE [r EXCEPT !.res = "Pending"]

\* One call of Buffered::poll_next (m = "ordered") or
\* BufferUnordered::poll_next (m = "unordered").
BufferPoll(b, max, n, m) ==
    LET f == Fill(b, max, n, m)
        r == IF m = "ordered" THEN PollOrdered(f) ELSE PollUnordered(f)
    IN IF r.res \in {"Ready", "Panic"} THEN r
       ELSE IF BatchFinished(r.res, r.b.streamDone) THEN [r EXCEPT !.res = "None"]
       ELSE [r EXCEPT !.res = "Pending"]

\* Variant of Wake that loses the wake-up: the future is not enqueued again.
WakeLost(q, i) == q

\* Waking a future of the FuturesUnordered: enqueue it unless already queued.
Wake(q, i) == IF InSeq(i, q) THEN q ELSE Append(q, i)

\* The state of a batch before ordered_get / unordered_get is first polled.
EmptyBatch(n) ==
    /\ next_url' = 0
    /\ streamDone' = FALSE
    /\ net' = [i \in 1..n |-> "new"]
    /\ status' = [i \in 1..n |-> 0]
    /\ in_progress' = {}
    /\ readyQ' = <<>>
    /\ queued_outputs' = {}
    /\ next_outgoing_index' = 1
    /\ out' = <<>>
    /\ driver' = "poll"

\* ---- average_time ----------------------------------------------------------
Init ==
    /\ mode \in Modes
    /\ numTests \in 0..MaxTests
    /\ pc = "test"
    /\ test_idx = 0
    /\ test = NoTest
    /\ idx = 0
    /\ results = <<>>
    /\ ret = <<>>
    /\ slept = <<>>
    /\ resp = <<>>
    /\ time = 0
    /\ timeline = <<>>
    /\ next_url = 0
    /\ streamDone = FALSE
    /\ net = <<>>
    /\ status = <<>>
    /\ in_progress = {}
    /\ readyQ = <<>>
    /\ queued_outputs = {}
    /\ next_outgoing_index = 1
    /\ out = <<>>
    /\ driver = "poll"

\* lib.rs:40-43  the outer loop takes the next test, one of T, and clears its
\* samples.
StartTestFrom(T) ==
    /\ pc = "test"
    /\ test_idx < numTests
    /\ \E t \in T : test' = t
    /\ results' = <<>>
    /\ idx' = 1
    /\ pc' = "trial"
    /\ UNCHANGED <<mode, numTests, test_idx, ret, slept, resp, time, timeline>>
    /\ UNCHANGED batchVars

StartTest == StartTestFrom(SuiteTests)

StartBatchTest == StartTestFrom(BatchTests)

\* lib.rs:76  the outer loop is exhausted: average_time returns ret.
Return ==
    /\ pc = "test"
    /\ test_idx >= numTests
    /\ pc' = "returned"
    /\ UNCHANGED suiteVars
    /\ UNCHANGED <<resp, time, timeline>>
    /\ UNCHANGED batchVars

\* lib.rs:44-52  one pass of the inner loop up to the await: the optional
\* sleep, the urls vector, the timer start and the call of async_func, whose
\* stream is built but not polled yet.
StartTrial ==
    /\ pc = "trial"
    /\ idx <= test.repeats
    /\ slept' = IF ShouldSleep(idx, test_idx) THEN <<test.delay_s>> ELSE <<>>
    /\ timeline' = TrialPrologue(ShouldSleep(idx, test_idx))
    /\ EmptyBatch(test.requests_number)
    /\ pc' = "batch"
    /\ UNCHANGED <<mode, numTests, test_idx, test, idx, results, ret, resp, time>>

\* main.rs:13-26 / 28-41  collect() polls the buffered stream once: the task
\* runs one poll_next of Buffered / BufferUnordered.  An item is pushed on
\* the Vec, Pending suspends the task, the end of the stream returns the Vec
\* to average_time (lib.rs:52-53, where the timer is read), and a failed
\* exchange unwinds the process.
PollNext ==
    /\ pc = "batch"
    /\ driver = "poll"
    /\ LET r == BufferPoll(BatchState, test.concurrent_requests,
                           test.requests_number, mode)
       IN /\ next_url' = r.b.next_url
          /\ streamDone' = r.b.streamDone
          /\ net' = r.b.net
          /\ in_progress' = r.b.in_progress
          /\ readyQ' = r.b.readyQ
          /\ queued_outputs' = r.b.queued_outputs
          /\ next_outgoing_index' = r.b.next_outgoing_index
          /\ CASE r.res = "Ready" ->
                    /\ out' = Append(out, Outcome(status, r.item))
                    /\ UNCHANGED <<driver, pc, resp, time, timeline>>
               [] r.res = "Pending" ->
                    /\ driver' = "wait"
                    /\ UNCHANGED <<out, pc, resp, time, timeline>>
               [] r.res = "None" ->
                    /\ resp' = out
                    /\ \E t \in Times : time' = t
                    /\ timeline' = Append(timeline, "timer_stop")
                    /\ pc' = "validate"
                    /\ UNCHANGED <<out, driver>>
               [] OTHER ->
                    /\ pc' = "panicked"
                    /\ UNCHANGED <<out, driver, resp, time, timeline>>
    /\ UNCHANGED status
    /\ UNCHANGED suiteVars

\* The server answers request i with status code s: send() is ready.
HeadArrives(i, s) ==
    /\ pc = "batch"
    /\ i \in DOMAIN net
    /\ net[i] = "sent"
    /\ net' = [net EXCEPT ![i] = "hdr"]
    /\ status' = [status EXCEPT ![i] = s]
    /\ readyQ' = Wake(readyQ, i)
    /\ driver' = "poll"
    /\ UNCHANGED <<next_url, streamDone, in_progress, queued_outputs,
                   next_outgoing_index, out, pc, resp, time, timeline>>
    /\ UNCHANGED suiteVars

\* The request of i cannot be sent or answered: send() is ready with Err.
ConnFails(i) ==
    /\ pc = "batch"
    /\ i \in DOMAIN net
    /\ net[i] = "sent"
    /\ net' = [net EXCEPT ![i] = "connfail"]
    /\ readyQ' = Wake(readyQ, i)
    /\ driver' = "poll"
    /\ UNCHANGED <<next_url, streamDone, status, in_progress, queued_outputs,
                   next_outgoing_index, out, pc, resp, time, timeline>>
    /\ UNCHANGED suiteVars

\* The body of the response of i has been read: text() is ready.
BodyArrives(i) ==
    /\ pc = "batch"
    /\ i \in DOMAIN net
    /\ net[i] = "hdr"
    /\ net' = [net EXCEPT ![i] = "body"]
    /\ readyQ' = Wake(readyQ, i)
    /\ driver' = "poll"
    /\ UNCHANGED <<next_url, streamDone, status, in_progress, queued_outputs,
                   next_outgoing_index, out, pc, resp, time, timeline>>
    /\ UNCHANGED suiteVars

\* The body of the response of i cannot be read: text() is ready with Err.
BodyFails(i) ==
    /\ pc = "batch"
    /\ i \in DOMAIN net
    /\ net[i] = "hdr"
    /\ net' = [net EXCEPT ![i] = "bodyfail"]
    /\ readyQ' = Wake(readyQ, i)
    /\ driver' = "poll"
    /\ UNCHANGED <<next_url, streamDone, status, in_progress, queued_outputs,
                   next_outgoing_index, out, pc, resp, time, timeline>>
    /\ UNCHANGED suiteVars

\* Variant of Validate that checks each outcome as soon as the batch has it,
\* without waiting for the batch to return.
ValidateEager ==
    /\ pc \in {"batch", "validate"}
    /\ LET seen == IF pc = "batch" THEN out ELSE resp
       IN IF \E j \in 1..Len(seen) : ~is_success(seen[j][1])
          THEN /\ pc' = "exited"
               /\ timeline' = Append(timeline, "validate")
               /\ UNCHANGED <<results, idx, slept, resp, time>>
               /\ UNCHANGED batchVars
          ELSE /\ pc = "validate"
               /\ results' = Append(results, time)
               /\ idx' = idx + 1
               /\ pc' = "trial"
               /\ slept' = <<>>
               /\ resp' = <<>>
               /\ time' = 0
               /\ timeline' = <<>>
               /\ EmptyBatch(0)
    /\ UNCHANGED <<mode, numTests, test_idx, test, ret>>

\* Variant of Validate that pushes the sample before checking the outcomes.
ValidatePushFirst ==
    /\ pc = "validate"
    /\ results' = Append(results, time)
    /\ IF \E j \in 1..Len(resp) : ~is_success(resp[j][1])
       THEN /\ pc' = "exited"
            /\ timeline' = Append(timeline, "validate")
            /\ UNCHANGED <<idx, slept, resp, time>>
            /\ UNCHANGED batchVars
       ELSE /\ idx' = idx + 1
            /\ pc' = "trial"
            /\ slept' = <<>>
            /\ resp' = <<>>
            /\ time' = 0
            /\ timeline' = <<>>
            /\ EmptyBatch(0)
    /\ UNCHANGED <<mode, numTests, test_idx, test, ret>>

\* lib.rs:55-66  every outcome is checked: the first non-success status ends
\* the process with exit(1); otherwise the sample is pushed and the inner
\* loop goes on, the locals of the finished pass (urls, resp, time and the
\* consumed stream with its client) being dropped.
Validate ==
    /\ pc = "validate"
    /\ IF \E j \in 1..Len(resp) : ~is_success(resp[j][1])
       THEN /\ pc' = "exited"
            /\ timeline' = Append(timeline, "validate")
            /\ UNCHANGED <<results, idx, slept, resp, time>>
            /\ UNCHANGED batchVars
       ELSE /\ results' = Append(results, time)
            /\ idx' = idx + 1
            /\ pc' = "trial"
            /\ slept' = <<>>
            /\ resp' = <<>>
            /\ time' = 0
            /\ timeline' = <<>>
            /\ EmptyBatch(0)
    /\ UNCHANGED <<mode, numTests, test_idx, test, ret>>

\* Variant of EndTest that stores the entry in place of ret (ret = vec![..]).
EndTestOverwrite ==
    /\ pc = "trial"
    /\ idx > test.repeats
    /\ IF statistic(results) = "None"
       THEN /\ pc' = "panicked"
            /\ UNCHANGED <<ret, test_idx, test, idx, results>>
       ELSE /\ ret' = <<statistic(results)>>
            /\ test_idx' = test_idx + 1
            /\ test' = NoTest
            /\ idx' = 0
            /\ results' = <<>>
            /\ pc' = "test"
    /\ UNCHANGED <<mode, numTests, slept, resp, time, timeline>>
    /\ UNCHANGED batchVars

\* lib.rs:68-74  the inner loop is exhausted: statistic(&results) is unwrapped
\* with expect("Repeats equal zero") and pushed on ret; the samples are
\* dropped with the pass of the outer loop.
EndTest ==
    /\ pc = "trial"
    /\ idx > test.repeats
    /\ IF statistic(results) = "None"
       THEN /\ pc' = "panicked"
            /\ UNCHANGED <<ret, test_idx, test, idx, results>>
       ELSE /\ ret' = Append(ret, statistic(results))
            /\ test_idx' = test_idx + 1
            /\ test' = NoTest
            /\ idx' = 0
            /\ results' = <<>>
            /\ pc' = "test"
    /\ UNCHANGED <<mode, numTests, slept, resp, time, timeline>>
    /\ UNCHANGED batchVars

Next ==
    \/ StartTest
    \/ Return
    \/ StartTrial
    \/ PollNext
    \/ \E i \in 1..MaxRequests : \E s \in StatusCodes : HeadArrives(i, s)
    \/ \E i \in 1..MaxRequests : ConnFails(i)
    \/ \E i \in 1..MaxRequests : BodyArrives(i)
    \/ \E i \in 1..MaxRequests : BodyFails(i)
    \/ Validate
    \/ EndTest

Spec == Init /\ [][Next]_vars

\* The batch-level specification: a suite of one test of one trial, with
\* batches of every size and concurrency limit within the bounds.
BatchInit == Init /\ numTests = 1

BatchNext ==
    \/ StartBatchTest
    \/ Return
    \/ StartTrial
    \/ PollNext
    \/ \E i \in 1..MaxRequests : \E s \in StatusCodes : HeadArrives(i, s)
    \/ \E i \in 1..MaxRequests : ConnFails(i)
    \/ \E i \in 1..MaxRequests : BodyArrives(i)
    \/ \E i \in 1..MaxRequests : BodyFails(i)
    \/ Validate
    \/ EndTest

BatchSpec == BatchInit /\ [][BatchNext]_vars

\* ---- the run without failures, under fair scheduling ------------------------
\* Tests of a suite that cannot fail by its configuration: at least one
\* trial.  Any batch is run in one trial; tests of several trials have at
\* most one url.
LiveTests ==
    {t \in Tests : /\ t.repeats >= 1
                   /\ t.delay_s = 0
                   /\ (t.repeats = 1 \/ t.requests_number <= 1)}

\* Suites of at most two tests.
LiveInit == Init /\ numTests <= 2

StartLiveTest == StartTestFrom(LiveTests)

\* No exchange fails: every request sent is answered and its body read.
LiveNext ==
    \/ StartLiveTest
    \/ Return
    \/ StartTrial
    \/ PollNext
    \/ \E i \in 1..MaxRequests : \E s \in StatusCodes : HeadArrives(i, s)
    \/ \E i \in 1..MaxRequests : BodyArrives(i)
    \/ Validate
    \/ EndTest

\* The steps of average_time itself, straight-line code on one thread.
SuiteStep ==
    \/ StartLiveTest
    \/ Return
    \/ StartTrial
    \/ Validate
    \/ EndTest

\* The answer to request i: its head with some status, then its body.
Answer(i) ==
    \/ \E s \in StatusCodes : HeadArrives(i, s)
    \/ BodyArrives(i)

\* The guard of PollNext, which changes driver, out or pc whenever it is
\* taken: PollNextEnabled is ENABLED <<PollNext>>_vars.
PollNextEnabled == pc = "batch" /\ driver = "poll"

\* The thread takes its next step once it can; the runtime polls the task again
\* whenever a waker has fired; and every request sent is answered in the end,
\* which is the premise of the progress claim.  The second conjunct is
\* WF_vars(PollNext) with its ENABLED written out as PollNextEnabled.
LiveFairness ==
    /\ WF_vars(SuiteStep)
    /\ ([]<>(~PollNextEnabled) \/ []<><<PollNext>>_vars)
    /\ \A i \in 1..MaxRequests : WF_vars(Answer(i))

LiveSpec == LiveInit /\ [][LiveNext]_vars /\ LiveFairness

\* ---- statistic on its own ----------------------------------------------------
\* The slices statistic is applied to: any samples, the empty slice included.
SampleSeqs == UNION {[1..n -> 0..MaxSample] : n \in 0..MaxSamples}

\* average_time at lib.rs:68 after the inner loop of a test of no urls has
\* measured the samples of data: statistic(&results) is the next call.
StatInit ==
    /\ mode \in Modes
    /\ numTests = 1
    /\ pc = "trial"
    /\ test_idx = 0
    /\ results \in SampleSeqs
    /\ test = [requests_number |-> 0, concurrent_requests |-> 1,
               repeats |-> Len(results), delay_s |-> 0]
    /\ idx = Len(results) + 1
    /\ ret = <<>>
    /\ slept = <<>>
    /\ resp = <<>>
    /\ time = 0
    /\ timeline = <<>>
    /\ next_url = 0
    /\ streamDone = FALSE
    /\ net = <<>>
    /\ status = <<>>
    /\ in_progress = {}
    /\ readyQ = <<>>
    /\ queued_outputs = {}
    /\ next_outgoing_index = 1
    /\ out = <<>>
    /\ driver = "poll"

StatNext == EndTest

StatSpec == StatInit /\ [][StatNext]_vars

\* ---- properties -------------------------------------------------------------
\* Requests sent on the network whose exchange has neither finished nor failed.
InFlight == {i \in DOMAIN net : net[i] \in {"sent", "hdr"}}

\* Urls of the current batch not yet taken from the url stream.
Undispatched == test.requests_number - next_url

MinOf(a, b) == IF a <= b THEN a ELSE b

\* C1: in ordered_get and in unordered_get alike, the requests dispatched and
\* not yet completed (the futures held by the buffer, and among them those on
\* the network) are never more than concurrent_requests.
C1_WindowBound ==
    pc = "batch" =>
        /\ Cardinality(in_progress) <= test.concurrent_requests
        /\ Cardinality(InFlight) <= test.concurrent_requests
        /\ InFlight \subseteq in_progress

C1_Witness ==
    /\ pc = "batch"
    /\ mode = "unordered"
    /\ test.requests_number > test.concurrent_requests
    /\ Cardinality(InFlight) = test.concurrent_requests
    /\ Len(out) >= 1

\* C2: in Ordered mode the j-th element of the collected (and of the returned)
\* sequence is the outcome of the request issued for urls[j], whatever the
\* order in which the exchanges completed.
C2_OrderedPositions ==
    (mode = "ordered" /\ pc \in {"batch", "validate"}) =>
        /\ \A j \in 1..Len(out) : out[j] = <<status[j], j>>
        /\ pc = "validate" => resp = out

\* Request 1 is in the result, and a later request completed ahead of the
\* oldest one still in flight.
C2_Witness ==
    /\ mode = "ordered"
    /\ pc = "batch"
    /\ Len(out) >= 1
    /\ queued_outputs # {}
    /\ \E i \in DOMAIN status : status[i] = 404

\* C3: a batch that returns (no exchange failed) returns exactly
\* requests_number outcomes, and the outcome of every submitted request occurs
\* exactly once in them, in both modes.
C3_NoLossNoDuplication ==
    pc = "validate" =>
        /\ Len(resp) = test.requests_number
        /\ \A i \in 1..test.requests_number :
               Cardinality({j \in 1..Len(resp) : resp[j] = <<status[i], i>>}) = 1

C3_Witness ==
    /\ pc = "validate"
    /\ mode = "unordered"
    /\ Len(resp) = 3
    /\ resp[1][2] # 1

\* C4 as claimed: in Ordered mode, while urls remain undispatched and the
\* driver waits, every slot of the window holds a request still in flight (no
\* completed request occupies a slot).
C4_Claimed ==
    (mode = "ordered" /\ pc = "batch" /\ driver = "wait" /\ Undispatched > 0) =>
        Cardinality(InFlight) = test.concurrent_requests

\* C4 as amended: in Ordered mode a slot is freed only when an outcome is
\* yielded in submission order.  While the driver waits, the requests in
\* flight together with the outcomes completed ahead of an earlier request
\* fill min(k, n - yielded) slots, those are exactly the requests admitted and
\* not yet yielded, and every parked outcome is younger than the oldest
\* request, which is still in flight.
C4_HeadOfLineWindow ==
    (mode = "ordered" /\ pc = "batch" /\ driver = "wait") =>
        /\ Cardinality(InFlight) + Cardinality(queued_outputs)
              = MinOf(test.concurrent_requests, test.requests_number - Len(out))
        /\ InFlight \cup queued_outputs = (Len(out) + 1)..next_url
        /\ InFlight \cap queued_outputs = {}
        /\ \A i \in queued_outputs : i > next_outgoing_index
        /\ next_outgoing_index = Len(out) + 1
        /\ next_outgoing_index \in InFlight

C4_Witness ==
    /\ mode = "ordered"
    /\ pc = "batch"
    /\ driver = "wait"
    /\ Undispatched > 0
    /\ queued_outputs # {}
    /\ Cardinality(InFlight) < test.concurrent_requests

\* C5: in Unordered mode the window slides on every completion: while the
\* driver waits, min(k, n - completed) requests are in flight, none of the
\* buffer's futures is a completed one, and the requests admitted so far are
\* the completed ones and those in flight.
C5_SlidingWindow ==
    (mode = "unordered" /\ pc = "batch" /\ driver = "wait") =>
        /\ Cardinality(InFlight)
              = MinOf(test.concurrent_requests, test.requests_number - Len(out))
        /\ in_progress = InFlight
        /\ next_url = Len(out) + Cardinality(InFlight)

\* Request 2 completed before request 1 and its slot went to request 3.
C5_Witness ==
    /\ mode = "unordered"
    /\ pc = "batch"
    /\ driver = "wait"
    /\ test.concurrent_requests = 2
    /\ Len(out) = 1
    /\ out[1][2] = 2
    /\ InFlight = {1, 3}

\* C6 as claimed: every trial with idx > 1, in the first test too, has slept
\* delay_s seconds before its batch.
C6_Claimed ==
    (pc = "batch" /\ idx > 1 /\ test.delay_s > 0) => slept = <<test.delay_s>>

\* C7 as claimed: the first trial of every test but the first has slept that
\* test's delay_s seconds before its batch.
C7_Claimed ==
    (pc = "batch" /\ test_idx > 0 /\ idx = 1 /\ test.delay_s > 0) => slept = <<test.delay_s>>

\* C8: the first trial of the first test is never preceded by a sleep,
\* whatever delay_s is.
C8_FirstTrialNoSleep ==
    (pc \in {"batch", "validate"} /\ test_idx = 0 /\ idx = 1) => slept = <<>>

C8_Witness ==
    /\ pc = "batch"
    /\ test_idx = 0
    /\ idx = 1
    /\ test.delay_s > 0
    /\ InFlight # {}

\* C9: a trial whose outcomes hold a non-2xx status ends the run at its
\* validation: the process exits, no sample is pushed, no trial or test
\* follows, nothing more is dispatched and nothing is returned.
C9_NonSuccessFatal ==
    [][/\ (pc = "validate" /\ \E j \in 1..Len(resp) : resp[j][1] \notin 200..299) =>
             /\ pc' = "exited"
             /\ results' = results
             /\ ret' = ret
             /\ idx' = idx
             /\ test_idx' = test_idx
             /\ net' = net
             /\ next_url' = next_url
       /\ pc # "exited"]_vars

C9_Witness ==
    /\ pc = "exited"
    /\ idx < test.repeats
    /\ test_idx + 1 < numTests
    /\ Len(resp) >= 2
    /\ \E j \in 1..Len(resp) : resp[j][1] = 200

\* C10: once an exchange of the batch has failed (connection or body), the
\* batch never returns a sequence: the only way on is the unwinding of the
\* process, with no sample, no result entry, no later trial, and the failed
\* request is never sent again.
C10_ExchangeFailureFatal ==
    [][/\ (pc = "batch" /\ \E i \in DOMAIN net : net[i] \in Failed) =>
             /\ pc' \in {"batch", "panicked"}
             /\ resp' = resp
             /\ results' = results
             /\ ret' = ret
             /\ idx' = idx
             /\ test_idx' = test_idx
             /\ DOMAIN net' = DOMAIN net
             /\ \A i \in DOMAIN net : net[i] \in Failed => net'[i] = net[i]
       /\ pc # "panicked"]_vars

C10_Witness ==
    /\ pc = "panicked"
    /\ \E i \in DOMAIN net : net[i] = "bodyfail"
    /\ Len(out) >= 1
    /\ idx < test.repeats


\* C11: a test with repeats = 0 dispatches no request (its inner loop has no
\* pass) and unwinds on the empty sample set: no entry is pushed on ret, no
\* later test starts and average_time does not return.
C11_ZeroRepeatsFatal ==
    [][/\ (pc = "trial" /\ test.repeats = 0) =>
             /\ results = <<>>
             /\ pc' = "panicked"
             /\ ret' = ret
             /\ test_idx' = test_idx
             /\ next_url' = 0
             /\ net' = net
             /\ InFlight = {}
       /\ (pc = "panicked" /\ test.repeats = 0) => FALSE]_vars

C11_Witness ==
    /\ pc = "panicked"
    /\ test.repeats = 0
    /\ test.requests_number > 0
    /\ test_idx + 1 < numTests


\* C12: trials and tests run one after the other.  A trial (its sleep first)
\* starts only when no request of an earlier trial is outstanding and every
\* earlier trial of the test has been timed, validated and sampled; a batch
\* is handed to validation only with all its requests completed; and outside
\* a batch nothing is in flight, so the requests in flight at any instant are
\* those of the one trial idx of the one test test_idx.
C12_StrictlySequential ==
    [][/\ (pc' = "batch" /\ pc # "batch") =>
             /\ pc = "trial"
             /\ in_progress = {} /\ InFlight = {}
             /\ resp = <<>>
             /\ Len(results) = idx - 1
             /\ idx' = idx /\ test_idx' = test_idx
             /\ Len(ret) = test_idx
       /\ (pc = "batch" /\ pc' = "batch") => (idx' = idx /\ test_idx' = test_idx)
       /\ pc' # "batch" => (in_progress' = {} \/ pc' = "panicked")
       /\ pc' = "validate" => \A i \in DOMAIN net' : net'[i] = "body"]_vars

C12_Witness ==
    /\ pc = "batch"
    /\ test_idx = 1
    /\ idx = 2
    /\ Len(results) = 1
    /\ Cardinality(InFlight) = 2


\* Mean and population standard deviation of a non-empty sample sequence, on
\* whole ticks, written from the formulas mu = (sum x) / n and
\* sigma = sqrt((sum (x - mu)^2) / n).
MeanOf(s) == SumSeq(s) \div Len(s)

StdDevOf(s) ==
    ISqrt(SumSeq([j \in 1..Len(s) |-> (s[j] - MeanOf(s)) * (s[j] - MeanOf(s))]) \div Len(s))

\* C13: ret holds one entry per finished test, in input order: finishing test
\* test_idx appends (and only appends) the mean and standard deviation of
\* that test's samples, nothing else changes ret, and average_time returns
\* when ret has one entry for each of the numTests tests.
C13_OneEntryPerTest ==
    [][/\ Len(ret') = test_idx'
       /\ test_idx' # test_idx =>
             /\ test_idx' = test_idx + 1
             /\ results # <<>>
             /\ ret' = Append(ret, <<MeanOf(results), StdDevOf(results)>>)
       /\ test_idx' = test_idx => ret' = ret
       /\ pc' = "returned" => (Len(ret') = numTests /\ ret' = ret)]_vars

C13_Witness ==
    /\ pc = "returned"
    /\ numTests = 2
    /\ Len(ret) = 2
    /\ ret[1] # ret[2]


\* C14: a test pushes one sample per trial, in trial order and only after the
\* trial's outcomes all passed validation: inside a test the samples taken
\* are those of trials 1..idx-1, a sample is only ever appended, by a
\* validation that found every status successful, and a test whose trials
\* all succeeded ends with exactly repeats samples handed to statistic.
C14_OneSamplePerTrial ==
    [][/\ pc' \in {"trial", "batch", "validate"} =>
             /\ Len(results') = idx' - 1
             /\ idx' <= test'.repeats + 1
       /\ results' # results =>
             \/ /\ pc = "validate"
                /\ \A j \in 1..Len(resp) : resp[j][1] \in 200..299
                /\ results' = Append(results, time)
                /\ idx' = idx + 1
             \/ results' = <<>>
       /\ test_idx' # test_idx => Len(results) = test.repeats]_vars

C14_Witness ==
    /\ pc = "trial"
    /\ test.repeats = 2
    /\ idx = 3
    /\ Len(results) = 2
    /\ results[1] # results[2]


\* C18: the sample of a trial is the time of the batch executor call alone.
\* The sleep, if any, comes before the timer is started; the timer is read
\* when the batch has returned with all its requests completed, and at no
\* other moment; validation follows the reading and does not alter it; and
\* the sample pushed is the value read.
C18_TimedInterval ==
    [][/\ pc' = "batch" =>
             /\ timeline' \in {<<"timer_start">>, <<"sleep", "timer_start">>}
             /\ (slept' # <<>>) <=> (timeline'[1] = "sleep")
       /\ pc' = "validate" =>
             /\ timeline' \in {<<"timer_start", "timer_stop">>,
                               <<"sleep", "timer_start", "timer_stop">>}
             /\ in_progress' = {}
             /\ Len(resp') = test'.requests_number
             /\ \A i \in DOMAIN net' : net'[i] = "body"
       /\ time' # time => ((pc = "batch" /\ pc' = "validate") \/ time' = 0)
       /\ (results' # results /\ results' # <<>>) =>
             /\ timeline[Len(timeline)] = "timer_stop"
             /\ results' = Append(results, time)
       /\ pc' = "exited" =>
             /\ timeline' \in {<<"timer_start", "timer_stop", "validate">>,
                               <<"sleep", "timer_start", "timer_stop", "validate">>}
             /\ time' = time]_vars

C18_Witness ==
    /\ pc = "exited"
    /\ test.delay_s > 0
    /\ timeline = <<"sleep", "timer_start", "timer_stop", "validate">>


Progress(s) ==
    CASE s = "new" -> 0
      [] s = "created" -> 1
      [] s = "sent" -> 2
      [] s = "hdr" -> 3
      [] OTHER -> 4

\* The urls of the current batch whose GET request has been sent.
Dispatched == {i \in DOMAIN net : Progress(net[i]) >= 2}

\* The current trial is over: its batch returned, or an exchange failed.
TrialOver ==
    \/ pc \in {"validate", "exited"}
    \/ pc = "panicked" /\ idx <= test.repeats

\* C17 as claimed: whatever the outcome of any exchange, the number of GET
\* requests dispatched within one trial equals requests_number.
C17_Claimed == TrialOver => Cardinality(Dispatched) = test.requests_number

\* C17: within one trial the batch has one entry per url, 1..requests_number;
\* a request is created only for the next url of the list and sent only once,
\* by the first poll of its future, and the exchange of a url never goes back
\* (no retry, whatever its outcome); never more than requests_number requests
\* are dispatched; and when the batch returns, exactly requests_number were,
\* each one completed.  A trial ended by a failed exchange may have
\* dispatched fewer.
C17_EachUrlAtMostOnce ==
    [][pc = "batch" =>
          /\ DOMAIN net = 1..test.requests_number
          /\ DOMAIN net' = DOMAIN net
          /\ \A i \in DOMAIN net :
                /\ Progress(net'[i]) >= Progress(net[i])
                /\ (net'[i] = "created" /\ net[i] # "created") =>
                       (net[i] = "new" /\ i > next_url /\ i <= next_url')
                /\ (net'[i] = "sent" /\ net[i] # "sent") =>
                       net[i] \in {"new", "created"}
                /\ (net'[i] # "new") <=> (i <= next_url')
          /\ Cardinality({i \in DOMAIN net' : Progress(net'[i]) >= 2})
                 <= test.requests_number
          /\ pc' = "validate" =>
                /\ next_url' = test.requests_number
                /\ \A i \in DOMAIN net' : net'[i] = "body"]_vars

\* A batch of three urls returned, one of them answered with a non-success
\* status, every url dispatched.
C17_Witness ==
    /\ pc = "validate"
    /\ test.requests_number = 3
    /\ Cardinality(Dispatched) = 3
    /\ \E i \in DOMAIN status : status[i] = 404


\* C20: status validation never cuts a batch short.  While the batch runs,
\* a non-success status already received neither ends the process nor stops
\* the url stream: the only ways out of the batch are its return and the
\* unwinding of a failed exchange.  exit(1) is taken only from the validation
\* that follows the return of the batch, when every one of the
\* requests_number urls has been dispatched, none is in flight, every
\* exchange is complete and the batch has returned one outcome per url.
C20_ExitOnlyAfterBatch ==
    [][/\ pc = "batch" =>
            /\ pc' \in {"batch", "validate", "panicked"}
            /\ (pc' = "validate") <=>
                   (/\ next_url = test.requests_number
                    /\ \A i \in DOMAIN net : net[i] = "body"
                    /\ Len(resp') = test.requests_number)
       /\ (pc' = "exited" /\ pc # "exited") =>
            /\ pc = "validate"
            /\ next_url = test.requests_number
            /\ InFlight = {}
            /\ in_progress = {}
            /\ \A i \in DOMAIN net : net[i] = "body"
            /\ Len(resp) = test.requests_number
            /\ {resp[j][2] : j \in 1..Len(resp)} = 1..test.requests_number
            /\ "timer_stop" \in {timeline[j] : j \in 1..Len(timeline)}]_vars

\* Limit 1, three urls: the first answer was a 404, the two urls after it
\* were dispatched and answered all the same, and only then did the run exit.
C20_Witness ==
    /\ pc = "exited"
    /\ test.concurrent_requests = 1
    /\ test.requests_number = 3
    /\ status[1] = 404
    /\ status[2] = 200
    /\ status[3] = 200
    /\ Len(resp) = 3


\* C16: statistic has no result exactly when the slice is empty, and a
\* (mean, standard deviation) pair for every non-empty slice: the call at
\* lib.rs:68 unwinds exactly on the empty slice, and otherwise pushes the
\* pair of the mean and the population standard deviation of the samples.
C16_NoneIffEmpty ==
    [][(pc = "trial" /\ idx > test.repeats) =>
          /\ (pc' = "panicked") <=> (results = <<>>)
          /\ results # <<>> =>
                /\ Len(ret') = Len(ret) + 1
                /\ ret'[Len(ret')] \in Nat \X Nat
                /\ ret'[Len(ret')] = <<MeanOf(results), StdDevOf(results)>>]_vars

\* statistic answered a pair with a non-zero deviation.
C16_Witness ==
    /\ pc = "test"
    /\ Len(ret) = 1
    /\ ret[1][2] > 0


\* C19: for any limit k >= 1 and any n >= 0, when every request sent is
\* answered in the end, a batch that has started eventually returns, with all
\* n urls dispatched and every exchange complete; with no failure the whole
\* suite eventually returns its results, one entry per test (written
\* <>(exited \/ returned): a run that never exits on a status returns).
\* Conversely there is no timeout and no cancellation: a request in flight
\* changes only by its own answer, and while it stays in flight the trial
\* does not leave its batch.
C19_EventualReturn ==
    /\ (pc = "batch") ~>
           (/\ pc = "validate"
            /\ next_url = test.requests_number
            /\ Len(resp) = test.requests_number
            /\ \A i \in DOMAIN net : net[i] = "body")
    /\ <>(pc = "exited" \/ (pc = "returned" /\ Len(ret) = numTests))
    /\ [][pc = "batch" =>
             \A i \in DOMAIN net :
                /\ net[i] = "sent" => net'[i] \in {"sent", "hdr"}
                /\ net[i] = "hdr" => net'[i] \in {"hdr", "body"}
                /\ (net[i] \in {"sent", "hdr"} /\ net'[i] = net[i]) =>
                       pc' = "batch"]_vars

\* A suite of two tests, each with at least one trial, has returned in
\* Ordered mode with one entry per test.
C19_Witness ==
    /\ pc = "returned"
    /\ mode = "ordered"
    /\ numTests = 2
    /\ Len(ret) = numTests
    /\ Len(out) = 0


\* The guard written out in LiveFairness is the enabling condition of PollNext
\* (an invariant of BatchSpec).
PollNextEnabledIsEnabled == PollNextEnabled <=> ENABLED <<PollNext>>_vars

====
